---- MODULE Spec2Model ----
(***************************************************************************)
(* The generation pipeline of the Shaggy Dog web app: the /generate        *)
(* request creates a Generation row and its original ImageAsset and starts *)
(* one background thread; the thread detects a breed, runs two masked      *)
(* edits and one text-to-image generation, and records the outcome.        *)
(***************************************************************************)
EXTENDS Integers, Sequences, FiniteSets, TLC

\* ---------------------------------------------------------------- bounds
MaxJobs == 2          \* Generation rows ever created
MaxTextLen == 2       \* tokens in a detection response
MaxRefused == 1       \* /generate requests answered 400

\* ---------------------------------------------------------------- values
JobIds == 1..MaxJobs
Users == {1}

NULL == "<NULL>"                      \* SQL NULL / Python None
DefaultBreed == "Golden Retriever"

\* Upload contents: a decodable photo, or bytes PIL cannot open.
Uploads == {"photo", "garbage"}
Empty == ""                         \* content of an upload of zero bytes
Decodable(data) == data = "photo"

\* Python values carried through the pipeline: <<type, payload>>.
Bytes(b) == <<"bytes", b>>
Str(s) == <<"str", s>>
NoFile == <<"none", "">>
Raised(msg) == <<"raised", msg>>
IsRaised(r) == r[1] = "raised"

\* str() of the exceptions the external calls raise.
NetworkMsg == "Connection error."
NoPayloadMsg == "Images API returned neither url nor b64_json."
NoKeyMsg == "OPENAI_API_KEY is not set"
DecodeMsg == "cannot identify image file"
NoRowMsg == "No row was found when one was required"
EncodeMsg == "'bytes' object has no attribute 'encode'"
CommitMsg == "(sqlalchemy.exc.OperationalError)"
\* What an Images API call for prompt `which` can do: raise, or return the bytes
\* of the image synthesised for that prompt.
SynthOutcomes(which) == {Raised(NoPayloadMsg), Bytes(which)}

NoGen == [exists |-> FALSE, user_id |-> 0, breed |-> NULL,
          status |-> NULL, error_message |-> NULL]
\* Pixel geometry.  _square_png_under_4mb renders the canvas at CanvasSide and,
\* when the PNG file is larger than SizeCeiling bytes, again at FallbackSide; the
\* edit endpoint is asked for EditSide x EditSide results.
CanvasSide == 1024
FallbackSide == 768
EditSide == 1024
SizeCeiling == 4 * 1024 * 1024
\* The sizes an optimized 8-bit RGB PNG of side x side pixels can have: from a
\* flat image (container only) up to incompressible data, stored with one
\* filter byte per row inside the container.
PngContainerMax == 65536
PngMaxBytes(side) == 3 * side * side + side + PngContainerMax
PngSizes(side) == {PngContainerMax, PngMaxBytes(side)}
\* Mutant: the file is compared with half the ceiling.
NormalizedSideHalfCeiling(size) ==
    IF size > SizeCeiling \div 2 THEN FallbackSide ELSE CanvasSide
\* The side of the canvas _square_png_under_4mb leaves in the file.
NormalizedSide(size) == IF size > SizeCeiling THEN FallbackSide ELSE CanvasSide

\* _make_face_mask: the ellipse's bounding box, int() of the fractions of w and h.
LeftPct == 16
RightPct == 84
TopPct == 4
BottomPct == 82
Trunc(n, pct) == (n * pct) \div 100
\* Mutant: the fractions are rounded to the nearest pixel.
MaskBoxRounded(w, h) ==
    [left |-> (w * LeftPct + 50) \div 100, right |-> (w * RightPct + 50) \div 100,
     top |-> (h * TopPct + 50) \div 100, bottom |-> (h * BottomPct + 50) \div 100]
MaskBox(w, h) ==
    [left |-> Trunc(w, LeftPct), right |-> Trunc(w, RightPct),
     top |-> Trunc(h, TopPct), bottom |-> Trunc(h, BottomPct)]
NoBox == [left |-> 0, right |-> 0, top |-> 0, bottom |-> 0]

NoFiles ==
    [upload |-> NoFile, canvas |-> NoFile, mask |-> NoFile, t1 |-> NoFile,
     canvas_side |-> 0, mask_side |-> 0, mask_box |-> NoBox, t1_side |-> 0]
Clean == "<clean>"                    \* a session attribute with no pending change
CleanSession == [breed |-> Clean, status |-> Clean, error_message |-> Clean]

VARIABLES
    apiKeySet,   \* config.OPENAI_API_KEY is non-empty
    gens,        \* table generations: committed rows
    images,      \* table images: committed rows of each generation, in insert order
    req,         \* position of the /generate request that created the row
    reqUpload,   \* the content that request read from the upload
    pc,          \* position of the worker thread of each generation
    args,        \* the thread's arguments (gen_id is the index, user_id)
    pending,     \* ImageAsset objects added to the worker session, not yet committed
    original,    \* worker local: original.data
    breed,       \* worker local: breed
    out,         \* generate_images_multithreaded's dict, as <<kind, value>> in insert order
    files,       \* temporary files the worker created and that still exist
    calls,       \* external requests issued by the worker, in order
    exc,         \* the exception travelling to the outer handler (its str())
    rejected,    \* the commits of this worker on which the store raised
    refused      \* number of /generate requests answered 400 "Empty upload"

vars == <<apiKeySet, gens, images, req, reqUpload, pc, args, pending,
          original, breed, out, files, calls, exc, rejected, refused>>

\* ---------------------------------------------------------------- detection response
ObjTokens == {"obj_beagle", "obj_nobreed", "obj_nullbreed", "obj_numbreed"}
ValueTokens == ObjTokens \cup {"list"}
\* A response text is a sequence of tokens.  A value token is one complete JSON
\* value: an object whose "breed" is "Beagle", is missing, is null or is a number,
\* or a list.  "junk" is text without braces, "open_junk" text with a stray "{",
\* "junk_close" text with a stray "}"; none of the three parses as JSON.
Tokens == ValueTokens \cup {"junk", "open_junk", "junk_close"}
Texts == UNION {[1..n -> Tokens] : n \in 0..MaxTextLen}

HasOpen(tok) == tok \in ObjTokens \cup {"open_junk"}
HasClose(tok) == tok \in ObjTokens \cup {"junk_close"}

\* json.loads: succeeds on exactly one JSON value.
JsonLoads(text) ==
    IF Len(text) = 1 /\ text[1] \in ValueTokens
    THEN [ok |-> TRUE, value |-> text[1]]
    ELSE [ok |-> FALSE, value |-> "error"]

\* text.find("{") and text.rfind("}"), 0 for -1.
Find(text) ==
    IF \E i \in 1..Len(text) : HasOpen(text[i])
    THEN CHOOSE i \in 1..Len(text) :
            HasOpen(text[i]) /\ \A k \in 1..(i - 1) : ~HasOpen(text[k])
    ELSE 0
RFind(text) ==
    IF \E i \in 1..Len(text) : HasClose(text[i])
    THEN CHOOSE i \in 1..Len(text) :
            HasClose(text[i]) /\ \A k \in (i + 1)..Len(text) : ~HasClose(text[k])
    ELSE 0

Fallback == "fallback_dict"

\* detect_breed_from_headshot, from the response text on.
ParseDetection(text) ==
    IF JsonLoads(text).ok THEN JsonLoads(text).value
    ELSE IF Find(text) # 0 /\ RFind(text) # 0 /\ RFind(text) >= Find(text)
              /\ JsonLoads(SubSeq(text, Find(text), RFind(text))).ok
         THEN JsonLoads(SubSeq(text, Find(text), RFind(text))).value
         ELSE Fallback

\* (breed_info.get("breed") or "Golden Retriever").strip()
ExtractBreed(info) ==
    CASE info = "list" -> [raised |-> TRUE, val |-> "'list' object has no attribute 'get'"]
      [] info = "obj_numbreed" ->
                          [raised |-> TRUE, val |-> "'int' object has no attribute 'strip'"]
      [] info = "obj_beagle" -> [raised |-> FALSE, val |-> "Beagle"]
      [] OTHER -> [raised |-> FALSE, val |-> DefaultBreed]

\* ---------------------------------------------------------------- store
GenCount == Cardinality({j \in JobIds : gens[j].exists})
\* Mutant: once the table is full the last id is handed out again.
NextIdReuse == IF GenCount < MaxJobs THEN GenCount + 1 ELSE MaxJobs
NextId == GenCount + 1

Asset(kind, mime, data) == [kind |-> kind, mime_type |-> mime, data |-> data]

\* Mutant: the UPDATE leaves the breed column out.
FlushedNoBreed(row, s) ==
    [row EXCEPT !.status = IF s.status # Clean THEN s.status ELSE @,
                !.error_message = IF s.error_message # Clean THEN s.error_message ELSE @]

\* The UPDATE a successful Session.commit issues: changed attributes only.
Flushed(row, s) ==
    [row EXCEPT !.breed = IF s.breed # Clean THEN s.breed ELSE @,
                !.status = IF s.status # Clean THEN s.status ELSE @,
                !.error_message = IF s.error_message # Clean THEN s.error_message ELSE @]

Init ==
    /\ apiKeySet \in BOOLEAN
    /\ gens = [j \in JobIds |-> NoGen]
    /\ images = [j \in JobIds |-> <<>>]
    /\ req = [j \in JobIds |-> "none"]
    /\ reqUpload = [j \in JobIds |-> ""]
    /\ pc = [j \in JobIds |-> "idle"]
    /\ args = [j \in JobIds |-> 0]
    /\ pending = [j \in JobIds |-> <<>>]
    /\ original = [j \in JobIds |-> NoFile]
    /\ breed = [j \in JobIds |-> NULL]
    /\ out = [j \in JobIds |-> <<>>]
    /\ files = [j \in JobIds |-> NoFiles]
    /\ calls = [j \in JobIds |-> <<>>]
    /\ exc = [j \in JobIds |-> ""]
    /\ rejected = [j \in JobIds |-> {}]
    /\ refused = 0

\* ---------------------------------------------------------------- POST /generate
workerVars == <<pc, args, pending, original, breed, out, files, calls, exc, rejected>>

\* Mutant: the content is not tested; a row is created for an empty upload too.
GenerateCreateAnyContent(u, data) ==
    /\ NextId <= MaxJobs
    /\ gens' = [gens EXCEPT ![NextId] =
                    [exists |-> TRUE, user_id |-> u, breed |-> NULL,
                     status |-> "processing", error_message |-> NULL]]
    /\ req' = [req EXCEPT ![NextId] = "row"]
    /\ reqUpload' = [reqUpload EXCEPT ![NextId] = data]
    /\ UNCHANGED <<apiKeySet, refused, images, workerVars>>

\* generate(): the content read, 400 when it is empty, else up to the commit of
\* the Generation row.
GenerateCreate(u, data) ==
    IF data = Empty
    THEN /\ refused < MaxRefused
         /\ refused' = refused + 1
         /\ UNCHANGED <<apiKeySet, gens, images, req, reqUpload, workerVars>>
    ELSE /\ NextId <= MaxJobs
         /\ gens' = [gens EXCEPT ![NextId] =
                         [exists |-> TRUE, user_id |-> u, breed |-> NULL,
                          status |-> "processing", error_message |-> NULL]]
         /\ req' = [req EXCEPT ![NextId] = "row"]
         /\ reqUpload' = [reqUpload EXCEPT ![NextId] = data]
         /\ UNCHANGED <<apiKeySet, refused, images, workerVars>>

\* generate(): the original ImageAsset and its commit.
GenerateAddOriginal(j, ok) ==
    /\ req[j] = "row"
    /\ IF ok
       THEN /\ images' = [images EXCEPT ![j] =
                  Append(@, Asset("original", "image/jpeg", Bytes(reqUpload[j])))]
            /\ req' = [req EXCEPT ![j] = "orig"]
       ELSE /\ req' = [req EXCEPT ![j] = "failed"]
            /\ UNCHANGED images
    /\ UNCHANGED <<apiKeySet, refused, gens, reqUpload, workerVars>>

\* Mutant: the thread can be started again for a generation already worked on.
GenerateStartThreadAgain(j) ==
    /\ req[j] \in {"orig", "redirected"}
    /\ pc[j] \in {"idle", "finished"}
    /\ req' = [req EXCEPT ![j] = "redirected"]
    /\ pc' = [pc EXCEPT ![j] = "start"]
    /\ args' = [args EXCEPT ![j] = gens[j].user_id]
    /\ calls' = [calls EXCEPT ![j] = <<>>]
    /\ out' = [out EXCEPT ![j] = <<>>]
    /\ exc' = [exc EXCEPT ![j] = ""]
    /\ UNCHANGED <<apiKeySet, refused, gens, images, reqUpload, pending, original,
                   breed, files, rejected>>

\* Mutant: the thread is started without waiting for the original's commit.
GenerateStartThreadEarly(j) ==
    /\ req[j] \in {"row", "orig"}
    /\ pc[j] = "idle"
    /\ req' = [req EXCEPT ![j] = "redirected"]
    /\ pc' = [pc EXCEPT ![j] = "start"]
    /\ args' = [args EXCEPT ![j] = gens[j].user_id]
    /\ UNCHANGED <<apiKeySet, refused, gens, images, reqUpload, pending, original,
                   breed, out, files, calls, exc, rejected>>

\* generate(): threading.Thread(target=_start_generation_thread, ...).start()
GenerateStartThread(j) ==
    /\ req[j] = "orig"
    /\ pc[j] = "idle"
    /\ req' = [req EXCEPT ![j] = "redirected"]
    /\ pc' = [pc EXCEPT ![j] = "start"]
    /\ args' = [args EXCEPT ![j] = gens[j].user_id]
    /\ UNCHANGED <<apiKeySet, refused, gens, images, reqUpload, pending, original,
                   breed, out, files, calls, exc, rejected>>

\* ---------------------------------------------------------------- worker thread
Raise(j, msg) ==
    /\ pc' = [pc EXCEPT ![j] = "handler"]
    /\ exc' = [exc EXCEPT ![j] = msg]

Goto(j, where) ==
    /\ pc' = [pc EXCEPT ![j] = where]
    /\ UNCHANGED exc

\* db.commit() of worker j's session with changed attributes s and the objects
\* `adds` added just before; a failing commit rolls the session back and raises.
\* `what` names the commit in `rejected`.
Commit(j, what, s, adds, ok) ==
    IF ok
    THEN /\ gens' = [gens EXCEPT ![j] = Flushed(@, s)]
         /\ images' = [images EXCEPT ![j] = @ \o pending[j] \o adds]
         /\ pending' = [pending EXCEPT ![j] = <<>>]
         /\ UNCHANGED rejected
    ELSE /\ pending' = [pending EXCEPT ![j] = <<>>]
         /\ rejected' = [rejected EXCEPT ![j] = @ \cup {what}]
         /\ UNCHANGED <<gens, images>>

Call(api, prompt, image, mask, result) ==
    [api |-> api, prompt |-> prompt, image |-> image, mask |-> mask, result |-> result]

Logged(j, c) == calls' = [calls EXCEPT ![j] = Append(@, c)]

\* os.unlink(tmp.name) in the inner finally.
Unlinked(f) == [f EXCEPT !.upload = NoFile]

OriginalRows(j) == SelectSeq(images[j], LAMBDA a : a.kind = "original")

\* Mutant: the owner of the row is not compared with the user_id argument.
WorkerStartNoOwnerCheck(j) ==
    /\ pc[j] = "start"
    /\ IF ~gens[j].exists
       THEN Goto(j, "finished") /\ UNCHANGED original
       ELSE IF Len(OriginalRows(j)) = 1
            THEN /\ original' = [original EXCEPT ![j] = OriginalRows(j)[1].data]
                 /\ Goto(j, "detect")
            ELSE Raise(j, NoRowMsg) /\ UNCHANGED original
    /\ UNCHANGED <<apiKeySet, refused, gens, images, req, reqUpload, args, pending, breed,
                   out, files, calls, rejected>>

\* _start_generation_thread: the lookups before the first external call.
WorkerStart(j) ==
    /\ pc[j] = "start"
    /\ IF ~gens[j].exists \/ gens[j].user_id # args[j]
       THEN Goto(j, "finished") /\ UNCHANGED original
       ELSE IF Len(OriginalRows(j)) = 1
            THEN /\ original' = [original EXCEPT ![j] = OriginalRows(j)[1].data]
                 /\ Goto(j, "detect")
            ELSE Raise(j, NoRowMsg) /\ UNCHANGED original
    /\ UNCHANGED <<apiKeySet, refused, gens, images, req, reqUpload, args, pending, breed,
                   out, files, calls, rejected>>

\* What detect_breed_from_headshot can return, over every response text.
DetectResults == {ParseDetection(t) : t \in Texts}
\* The completion request raises, or a response arrives and is parsed.
DetectOutcomes ==
    {[ok |-> FALSE, info |-> Fallback]} \cup {[ok |-> TRUE, info |-> i] : i \in DetectResults}

\* Mutant: a detection request that raises is treated like an unparseable
\* response: the default breed is taken and the worker goes on.
DetectBreedToleratesFailure(j, r) ==
    /\ pc[j] = "detect"
    /\ IF ~apiKeySet
       THEN Raise(j, NoKeyMsg) /\ UNCHANGED <<calls, breed>>
       ELSE IF ~r.ok
            THEN /\ Logged(j, Call("detect", <<"vision", "">>, original[j], NoFile,
                                   Raised(NetworkMsg)))
                 /\ breed' = [breed EXCEPT ![j] = DefaultBreed]
                 /\ Goto(j, "commit_breed")
            ELSE /\ Logged(j, Call("detect", <<"vision", "">>, original[j], NoFile,
                                   Str("response")))
                 /\ IF ExtractBreed(r.info).raised
                    THEN Raise(j, ExtractBreed(r.info).val)
                         /\ UNCHANGED breed
                    ELSE /\ breed' = [breed EXCEPT ![j] =
                                         ExtractBreed(r.info).val]
                         /\ Goto(j, "commit_breed")
    /\ UNCHANGED <<apiKeySet, refused, gens, images, req, reqUpload, args, pending, original,
                   out, files, rejected>>

\* Mutant: the request is sent before the credential is looked at.
DetectBreedChecksKeyLate(j, r) ==
    /\ pc[j] = "detect"
    /\ IF ~apiKeySet
       THEN /\ Logged(j, Call("detect", <<"vision", "">>, original[j], NoFile,
                              Raised(NoKeyMsg)))
            /\ Raise(j, NoKeyMsg)
            /\ UNCHANGED breed
       ELSE IF ~r.ok
            THEN /\ Logged(j, Call("detect", <<"vision", "">>, original[j], NoFile,
                                   Raised(NetworkMsg)))
                 /\ Raise(j, NetworkMsg)
                 /\ UNCHANGED breed
            ELSE /\ Logged(j, Call("detect", <<"vision", "">>, original[j], NoFile,
                                   Str("response")))
                 /\ IF ExtractBreed(r.info).raised
                    THEN Raise(j, ExtractBreed(r.info).val)
                         /\ UNCHANGED breed
                    ELSE /\ breed' = [breed EXCEPT ![j] =
                                         ExtractBreed(r.info).val]
                         /\ Goto(j, "commit_breed")
    /\ UNCHANGED <<apiKeySet, refused, gens, images, req, reqUpload, args, pending, original,
                   out, files, rejected>>

\* detect_breed_from_headshot(original.data) and the breed taken from its result.
DetectBreed(j, r) ==
    /\ pc[j] = "detect"
    /\ IF ~apiKeySet
       THEN Raise(j, NoKeyMsg) /\ UNCHANGED <<calls, breed>>
       ELSE IF ~r.ok
            THEN /\ Logged(j, Call("detect", <<"vision", "">>, original[j], NoFile,
                                   Raised(NetworkMsg)))
                 /\ Raise(j, NetworkMsg)
                 /\ UNCHANGED breed
            ELSE /\ Logged(j, Call("detect", <<"vision", "">>, original[j], NoFile,
                                   Str("response")))
                 /\ IF ExtractBreed(r.info).raised
                    THEN Raise(j, ExtractBreed(r.info).val)
                         /\ UNCHANGED breed
                    ELSE /\ breed' = [breed EXCEPT ![j] =
                                         ExtractBreed(r.info).val]
                         /\ Goto(j, "commit_breed")
    /\ UNCHANGED <<apiKeySet, refused, gens, images, req, reqUpload, args, pending, original,
                   out, files, rejected>>

\* gen.breed = breed; db.commit()
CommitBreed(j, ok) ==
    /\ pc[j] = "commit_breed"
    /\ Commit(j, "breed", [CleanSession EXCEPT !.breed = breed[j]], <<>>, ok)
    /\ IF ok THEN Goto(j, "preprocess") ELSE Raise(j, CommitMsg)
    /\ UNCHANGED <<apiKeySet, refused, req, reqUpload, args, original, breed, out, files, calls>>

\* The upload written to tmp, then generate_images_multithreaded up to the mask.
Preprocess(j) ==
    /\ pc[j] = "preprocess"
    /\ IF Decodable(original[j][2])
       THEN /\ \E size \in PngSizes(CanvasSide) :
                   files' = [files EXCEPT ![j] =
                       [@ EXCEPT !.upload = original[j],
                                 !.canvas = <<"canvas", original[j][2]>>,
                                 !.canvas_side = NormalizedSide(size),
                                 !.mask = <<"mask", original[j][2]>>,
                                 !.mask_side = NormalizedSide(size),
                                 !.mask_box = MaskBox(NormalizedSide(size),
                                                      NormalizedSide(size))]]
            /\ Goto(j, "edit1")
       ELSE /\ files' = [files EXCEPT ![j] = Unlinked([@ EXCEPT !.upload = original[j]])]
            /\ Raise(j, DecodeMsg)
    /\ UNCHANGED <<apiKeySet, refused, gens, images, req, reqUpload, args, pending, original,
                   breed, out, calls, rejected>>

\* The image each edit call opens.
Edit1Input(j) == files[j].canvas
\* Mutant: transition 2 edits the base canvas again instead of transition 1.
Edit2InputBase(j) == files[j].canvas
Edit2Input(j) == files[j].t1

\* Mutant: transition 1 is added to the session as soon as it is returned.
Edit1AddsAsset(j, r) ==
    /\ pc[j] = "edit1"
    /\ IF ~apiKeySet
       THEN /\ Raise(j, NoKeyMsg)
            /\ files' = [files EXCEPT ![j] = Unlinked(@)]
            /\ UNCHANGED <<calls, out, pending>>
       ELSE /\ Logged(j, Call("edit", <<"t1", breed[j]>>, Edit1Input(j), files[j].mask, r))
            /\ IF IsRaised(r)
               THEN /\ Raise(j, r[2])
                    /\ files' = [files EXCEPT ![j] = Unlinked(@)]
                    /\ UNCHANGED <<out, pending>>
               ELSE /\ out' = [out EXCEPT ![j] = Append(@, <<"t1", r>>)]
                    /\ files' = [files EXCEPT ![j] = [@ EXCEPT !.t1 = r, !.t1_side = EditSide]]
                    /\ pending' = [pending EXCEPT ![j] =
                                      Append(@, Asset("t1", "image/png", r))]
                    /\ Goto(j, "edit2")
    /\ UNCHANGED <<apiKeySet, refused, gens, images, req, reqUpload, args, original,
                   breed, rejected>>

\* Transition 1: edit_image_with_prompt(base_path, t1, mask), then t1 written to t1_tmp.
Edit1(j, r) ==
    /\ pc[j] = "edit1"
    /\ IF ~apiKeySet
       THEN /\ Raise(j, NoKeyMsg)
            /\ files' = [files EXCEPT ![j] = Unlinked(@)]
            /\ UNCHANGED <<calls, out>>
       ELSE /\ Logged(j, Call("edit", <<"t1", breed[j]>>, Edit1Input(j), files[j].mask, r))
            /\ IF IsRaised(r)
               THEN /\ Raise(j, r[2])
                    /\ files' = [files EXCEPT ![j] = Unlinked(@)]
                    /\ UNCHANGED out
               ELSE /\ out' = [out EXCEPT ![j] = Append(@, <<"t1", r>>)]
                    /\ files' = [files EXCEPT ![j] = [@ EXCEPT !.t1 = r, !.t1_side = EditSide]]
                    /\ Goto(j, "edit2")
    /\ UNCHANGED <<apiKeySet, refused, gens, images, req, reqUpload, args, pending, original,
                   breed, rejected>>

\* Transition 2: edit_image_with_prompt(t1_tmp.name, t2, mask).
Edit2(j, r) ==
    /\ pc[j] = "edit2"
    /\ IF ~apiKeySet
       THEN /\ Raise(j, NoKeyMsg)
            /\ files' = [files EXCEPT ![j] = Unlinked(@)]
            /\ UNCHANGED <<calls, out>>
       ELSE /\ Logged(j, Call("edit", <<"t2", breed[j]>>, Edit2Input(j), files[j].mask, r))
            /\ IF IsRaised(r)
               THEN /\ Raise(j, r[2])
                    /\ files' = [files EXCEPT ![j] = Unlinked(@)]
                    /\ UNCHANGED out
               ELSE /\ out' = [out EXCEPT ![j] = Append(@, <<"t2", r>>)]
                    /\ Goto(j, "generate")
                    /\ UNCHANGED files
    /\ UNCHANGED <<apiKeySet, refused, gens, images, req, reqUpload, args, pending, original,
                   breed, rejected>>

\* Dog: generate_image_from_prompt(dog), then return out.
GenerateDog(j, r) ==
    /\ pc[j] = "generate"
    /\ IF ~apiKeySet
       THEN /\ Raise(j, NoKeyMsg)
            /\ files' = [files EXCEPT ![j] = Unlinked(@)]
            /\ UNCHANGED <<calls, out>>
       ELSE /\ Logged(j, Call("generate", <<"dog", breed[j]>>, NoFile, NoFile, r))
            /\ IF IsRaised(r)
               THEN /\ Raise(j, r[2])
                    /\ files' = [files EXCEPT ![j] = Unlinked(@)]
                    /\ UNCHANGED out
               ELSE /\ out' = [out EXCEPT ![j] = Append(@, <<"dog", r>>)]
                    /\ Goto(j, "persist")
                    /\ UNCHANGED files
    /\ UNCHANGED <<apiKeySet, refused, gens, images, req, reqUpload, args, pending, original,
                   breed, rejected>>

\* Mutant: transition 1's value can be encoded, the later ones cannot.
HasEncodeFirstItem(v) == v[1] = "str" \/ v[2] = "t1"
\* url.encode("utf-8") exists on str, not on bytes.
HasEncode(v) == v[1] = "str"

\* Index of the first item of the dict whose value has no encode(), 0 if none.
FirstBad(o) ==
    IF \E i \in 1..Len(o) : ~HasEncode(o[i][2])
    THEN CHOOSE i \in 1..Len(o) :
            ~HasEncode(o[i][2]) /\ \A k \in 1..(i - 1) : HasEncode(o[k][2])
    ELSE 0

\* The ImageAsset objects the loop adds before it ends or raises.
Added(o) ==
    [i \in 1..(IF FirstBad(o) = 0 THEN Len(o) ELSE FirstBad(o) - 1) |->
        Asset(o[i][1], "text/plain", Bytes(o[i][2][2]))]

\* for kind, url in images.items(): db.add(...); status done; commit; finally unlink.
PersistResults(j, ok) ==
    /\ pc[j] = "persist"
    /\ files' = [files EXCEPT ![j] = Unlinked(@)]
    /\ IF FirstBad(out[j]) # 0
       THEN /\ pending' = [pending EXCEPT ![j] = @ \o Added(out[j])]
            /\ Raise(j, EncodeMsg)
            /\ UNCHANGED <<gens, images, rejected>>
       ELSE /\ Commit(j, "results", [CleanSession EXCEPT !.status = "done", !.error_message = NULL],
                      Added(out[j]), ok)
            /\ IF ok THEN Goto(j, "finished") ELSE Raise(j, CommitMsg)
    /\ UNCHANGED <<apiKeySet, refused, req, reqUpload, args, original, breed, out, calls>>

\* Mutant: the handler sets the status and forgets error_message.
RecordErrorNoMessage(j, ok) ==
    /\ pc[j] = "handler"
    /\ IF gens[j].exists
       THEN Commit(j, "error", [CleanSession EXCEPT !.status = "error"], <<>>, ok)
       ELSE UNCHANGED <<gens, images, pending, rejected>>
    /\ Goto(j, "finished")
    /\ UNCHANGED <<apiKeySet, refused, req, reqUpload, args, original, breed, out, files, calls>>

\* Mutant: the handler's test of the row is inverted, so nothing is recorded.
RecordErrorSkipsRow(j, ok) ==
    /\ pc[j] = "handler"
    /\ IF ~gens[j].exists
       THEN Commit(j, "error",
                   [CleanSession EXCEPT !.status = "error", !.error_message = exc[j]],
                   <<>>, ok)
       ELSE UNCHANGED <<gens, images, pending, rejected>>
    /\ Goto(j, "finished")
    /\ UNCHANGED <<apiKeySet, refused, req, reqUpload, args, original, breed, out, files, calls>>

\* Mutant: the handler records a fixed text instead of str(e).
RecordErrorFixedText(j, ok) ==
    /\ pc[j] = "handler"
    /\ IF gens[j].exists
       THEN Commit(j, "error",
                   [CleanSession EXCEPT !.status = "error",
                                        !.error_message = "Generation failed"],
                   <<>>, ok)
       ELSE UNCHANGED <<gens, images, pending, rejected>>
    /\ Goto(j, "finished")
    /\ UNCHANGED <<apiKeySet, refused, req, reqUpload, args, original, breed, out, files, calls>>

\* except Exception as e: status error, error_message str(e), commit; a failure
\* in here is swallowed; finally db.close().
RecordError(j, ok) ==
    /\ pc[j] = "handler"
    /\ IF gens[j].exists
       THEN Commit(j, "error",
                   [CleanSession EXCEPT !.status = "error", !.error_message = exc[j]],
                   <<>>, ok)
       ELSE UNCHANGED <<gens, images, pending, rejected>>
    /\ Goto(j, "finished")
    /\ UNCHANGED <<apiKeySet, refused, req, reqUpload, args, original, breed, out, files, calls>>

\* ---------------------------------------------------------------- specifications
\* One step of the thread of generation j; Commits is the set of outcomes a
\* commit can have.
WorkerStep(j, Commits) ==
    \/ WorkerStart(j)
    \/ \E r \in DetectOutcomes : DetectBreed(j, r)
    \/ \E ok \in Commits : CommitBreed(j, ok)
    \/ Preprocess(j)
    \/ \E r \in SynthOutcomes("t1") : Edit1(j, r)
    \/ \E r \in SynthOutcomes("t2") : Edit2(j, r)
    \/ \E r \in SynthOutcomes("dog") : GenerateDog(j, r)
    \/ \E ok \in Commits : PersistResults(j, ok)
    \/ \E ok \in Commits : RecordError(j, ok)

\* One step of a /generate request.
RequestStep(Commits) ==
    \/ \E u \in Users, data \in Uploads : GenerateCreate(u, data)
    \/ \E j \in JobIds, ok \in Commits : GenerateAddOriginal(j, ok)
    \/ \E j \in JobIds : GenerateStartThread(j)

Step(Commits) == RequestStep(Commits) \/ \E j \in JobIds : WorkerStep(j, Commits)

\* The store may raise on any commit.
Next == Step(BOOLEAN)
Spec == Init /\ [][Next]_vars

\* _start_generation_thread(gen_id, user_id) called other than generate calls it
\* (GenerateStartThread is the call with the owner on a job that has its
\* original): with a user id that is not the owner's, or on a row whose request
\* failed before the original was stored.
Callers == Users \cup {2}
StartThreadDirect(j, u) ==
    /\ pc[j] = "idle"
    /\ gens[j].exists
    /\ \/ req[j] = "failed"
       \/ req[j] = "orig" /\ u # gens[j].user_id
    /\ pc' = [pc EXCEPT ![j] = "start"]
    /\ args' = [args EXCEPT ![j] = u]
    /\ UNCHANGED <<apiKeySet, refused, gens, images, req, reqUpload, pending, original,
                   breed, out, files, calls, exc, rejected>>

\* The system, and the worker function also called with other arguments.
NextAnyCall == Next \/ \E j \in JobIds, u \in Callers : StartThreadDirect(j, u)
SpecAnyCall == Init /\ [][NextAnyCall]_vars

\* The uploads of Step and the upload of zero bytes, the store accepting every
\* write.
NextAnyUpload == Step({TRUE}) \/ \E u \in Users : GenerateCreate(u, Empty)
SpecAnyUpload == Init /\ [][NextAnyUpload]_vars

\* The store accepts every write.
NextStoreOK == Step({TRUE})
SpecStoreOK == Init /\ [][NextStoreOK]_vars

\* ---------------------------------------------------------------- vocabulary of the claims
Finished(j) == pc[j] = "finished"

\* The external call of worker j for stage k ("vision", "t1", "t2", "dog") returned / raised.
Returned(j, k) ==
    \E i \in 1..Len(calls[j]) : calls[j][i].prompt[1] = k /\ ~IsRaised(calls[j][i].result)
Failed(j, k) ==
    \E i \in 1..Len(calls[j]) : calls[j][i].prompt[1] = k /\ IsRaised(calls[j][i].result)

\* Committed assets of generation j other than the original, and their kinds.
Derived(j) == SelectSeq(images[j], LAMBDA a : a.kind # "original")
RowsOfKind(j, k) == SelectSeq(images[j], LAMBDA a : a.kind = k)
DerivedKinds == {"t1", "t2", "dog"}

\* ---------------------------------------------------------------- C1
\* C1 (as claimed): when detection, edit1, edit2 and generate all returned for a
\* job and the store rejected no write of its worker, the finished worker has
\* left the job in status done.
C1_AllStagesSucceededEndsDone ==
    \A j \in JobIds :
        (Finished(j) /\ Returned(j, "vision") /\ Returned(j, "t1") /\ Returned(j, "t2")
            /\ Returned(j, "dog") /\ rejected[j] = {})
        => gens[j].status = "done"

C4_ErrorHasMessageAndNoLaterAssets ==
    \A j \in JobIds :
        gens[j].status = "error"
        => /\ gens[j].error_message # NULL
           /\ \A k \in DerivedKinds : ~Returned(j, k) => Len(RowsOfKind(j, k)) = 0

C4_Witness ==
    \E j \in JobIds :
        /\ gens[j].status = "error"
        /\ Returned(j, "t1") /\ Returned(j, "t2") /\ Failed(j, "dog")

\* ---------------------------------------------------------------- C5
\* What a finished worker has left in its job's row: the row is untouched
\* (processing) when the commit recording the error was itself rejected;
\* otherwise done after a run without exception, and error with str(e) after one.
EndState(j) ==
    IF "error" \in rejected[j]
    THEN gens[j].status = "processing"
    ELSE IF exc[j] = ""
         THEN gens[j].status = "done"
         ELSE gens[j].status = "error" /\ gens[j].error_message = exc[j]

\* C5 (as claimed): a finished worker has left its job in done or error, an
\* error carrying the description of the exception that was raised.
C5_FinishedWorkerLeftTerminalStatus ==
    \A j \in JobIds :
        Finished(j)
        => /\ gens[j].status \in {"done", "error"}
           /\ gens[j].status = "error" => gens[j].error_message = exc[j]

\* How many steps a thread at this position has left at most.
Rank(p) ==
    CASE p = "start" -> 9 [] p = "detect" -> 8 [] p = "commit_breed" -> 7
      [] p = "preprocess" -> 6 [] p = "edit1" -> 5 [] p = "edit2" -> 4
      [] p = "generate" -> 3 [] p = "persist" -> 2 [] p = "handler" -> 1
      [] p = "finished" -> 0 [] OTHER -> 10

\* C5 (amended): every started worker finishes (it is never blocked while its
\* calls return or raise, and every step takes it strictly closer to its end), and
\* its job is then terminal, an error carrying the exception's description,
\* unless the store rejected the commit that records the error: that fault is
\* swallowed and the job stays in processing.
C5_WorkersFinishAndRecordUnlessErrorWriteRejected ==
    /\ [](\A j \in JobIds :
            /\ pc[j] \notin {"idle", "finished"} => ENABLED WorkerStep(j, BOOLEAN)
            /\ Finished(j) => EndState(j))
    /\ [][\A j \in JobIds : pc'[j] # pc[j] => Rank(pc'[j]) < Rank(pc[j])]_vars

C5_Witness ==
    \E j \in JobIds :
        Finished(j) /\ "error" \in rejected[j] /\ gens[j].status = "processing"

\* ---------------------------------------------------------------- C6
\* C6: a row's status only ever changes from processing to done or to error, and
\* once it is done or error no step changes the row or the generation's assets.
C6_StatusMonotonicAndTerminal ==
    [][\A j \in JobIds :
          gens[j].exists
          => /\ gens[j].status \in {"done", "error"}
                   => gens'[j] = gens[j] /\ images'[j] = images[j]
             /\ gens'[j].status # gens[j].status
                   => gens[j].status = "processing" /\ gens'[j].status \in {"done", "error"}]_vars

\* A job is terminal while the worker of another job is about to write its outcome.
C6_Witness ==
    \E j, k \in JobIds :
        j # k /\ gens[j].status = "error" /\ Finished(j) /\ pc[k] = "handler"

\* ---------------------------------------------------------------- C7
\* The messages of the exceptions raised while taking the breed out of a response.
ExtractionMsgs == {ExtractBreed(i).val : i \in {x \in DetectResults : ExtractBreed(x).raised}}

\* C7 (as claimed): once the detection call has returned a response, whatever its
\* content, the worker holds a breed, and the job is never in error with an
\* exception raised on that response.
C7_DetectionResponseNeverErrors ==
    \A j \in JobIds :
        Returned(j, "vision")
        => /\ breed[j] # NULL
           /\ gens[j].status = "error" => gens[j].error_message \notin ExtractionMsgs

\* ---------------------------------------------------------------- C8
\* C8 (as claimed): no temporary file created by a worker exists once it finished.
C8_TempFilesReleased ==
    \A j \in JobIds : Finished(j) => files[j] = NoFiles

\* ---------------------------------------------------------------- C9
StageOrder == <<"vision", "t1", "t2", "dog">>

C10_SynthesisFailureIsFatal ==
    \A j \in JobIds :
        \A i \in 2..Len(calls[j]) :
            IsRaised(calls[j][i].result)
            => /\ i = Len(calls[j])
               /\ pc[j] \in {"handler", "finished"}
               /\ Finished(j) => /\ gens[j].status = "error"
                                 /\ gens[j].error_message = calls[j][i].result[2]

C10_Witness ==
    \E j \in JobIds : Finished(j) /\ Failed(j, "t1") /\ gens[j].status = "error"

\* ---------------------------------------------------------------- C11
\* C11: when the detection request itself raised, the worker issues no edit or
\* generate call and finishes with the job in error, its breed still null and no
\* asset beyond the original.
C11_DetectionFailureEndsInError ==
    \A j \in JobIds :
        Failed(j, "vision")
        => /\ Len(calls[j]) = 1
           /\ gens[j].breed = NULL
           /\ Len(Derived(j)) = 0
           /\ pc[j] \in {"handler", "finished"}
           /\ Finished(j) => gens[j].status = "error" /\ gens[j].error_message = NetworkMsg

C11_Witness ==
    \E j \in JobIds : Finished(j) /\ Failed(j, "vision") /\ gens[j].status = "error"

\* ---------------------------------------------------------------- C12
Started(j) == pc[j] # "idle"
OwnerMismatch(j) == gens[j].user_id # args[j]
OriginalAbsent(j) == Len(OriginalRows(j)) = 0
RowUntouched(j) ==
    /\ gens[j].status = "processing"
    /\ gens[j].error_message = NULL
    /\ gens[j].breed = NULL
    /\ Len(Derived(j)) = 0

\* C12 (as claimed): a worker started on a job without original asset, or with a
\* user id that is not the job's owner, makes no external call and leaves status,
\* error_message, breed and assets as they were.
C12_AbortsWithoutMutation ==
    \A j \in JobIds :
        (Started(j) /\ (OriginalAbsent(j) \/ OwnerMismatch(j)))
        => calls[j] = <<>> /\ RowUntouched(j)

\* C12 (amended): on an owner mismatch the worker returns at once: no external
\* call, nothing mutated.  When the owner matches and the original asset is
\* absent it makes no external call either, but the lookup raises and the handler
\* records the job as error with that exception's message (unless the store
\* rejects that write); breed and assets stay as they were.
C12_AbortOnMismatchErrorOnMissingOriginal ==
    \A j \in JobIds :
        /\ (Started(j) /\ OwnerMismatch(j))
            => /\ calls[j] = <<>> /\ RowUntouched(j)
               /\ pc[j] \in {"start", "finished"} /\ exc[j] = ""
        /\ (Started(j) /\ ~OwnerMismatch(j) /\ OriginalAbsent(j))
            => /\ calls[j] = <<>>
               /\ gens[j].breed = NULL /\ Len(Derived(j)) = 0
               /\ pc[j] \in {"start", "handler", "finished"}
               /\ Finished(j) => exc[j] = NoRowMsg /\ EndState(j)

C12_Witness ==
    \E j, k \in JobIds :
        /\ Finished(j) /\ OwnerMismatch(j) /\ ~OriginalAbsent(j)
        /\ Finished(k) /\ ~OwnerMismatch(k) /\ OriginalAbsent(k)
        /\ gens[k].status = "error"

\* ---------------------------------------------------------------- C13
\* C13: an upload that is not a decodable image is rejected before any worker
\* starts: no worker is dispatched for it and no external call is made for it.
C13_UndecodableUploadNeverDispatched ==
    \A j \in JobIds :
        (gens[j].exists /\ ~Decodable(reqUpload[j]))
        => pc[j] = "idle" /\ calls[j] = <<>>

\* ---------------------------------------------------------------- C14
\* C14: a job row appears with status processing while no worker runs for it;
\* whenever the job's worker has begun, the row exists, its owner is the user id
\* handed to the worker, and exactly one original asset exists, holding the
\* uploaded bytes; no step changes or duplicates an original asset once stored.
C14_LaunchAfterRowAndOriginal ==
    /\ [](\A j \in JobIds :
            Started(j)
            => /\ gens[j].exists
               /\ gens[j].user_id = args[j]
               /\ Len(OriginalRows(j)) = 1
               /\ OriginalRows(j)[1] = Asset("original", "image/jpeg", Bytes(reqUpload[j])))
    /\ [][\A j \in JobIds :
            /\ (~gens[j].exists /\ gens'[j].exists)
                => gens'[j].status = "processing" /\ pc'[j] = "idle" /\ images'[j] = <<>>
            /\ Len(OriginalRows(j)) > 0
                => SelectSeq(images'[j], LAMBDA a : a.kind = "original") = OriginalRows(j)]_vars

C14_Witness ==
    \E j \in JobIds : Finished(j) /\ Len(calls[j]) = 4 /\ Len(OriginalRows(j)) = 1

\* ---------------------------------------------------------------- C15
\* C15: under any interleaving of requests and workers, a job's worker is
\* launched once (from the request that stored its original) and never again,
\* and once it is launched the job's row and assets change only in steps of that
\* worker: never in a step of another job's worker or of a request.
C15_OneWorkerSingleWriter ==
    [][\A j \in JobIds :
          /\ (pc[j] = "idle" /\ pc'[j] # "idle")
              => req[j] = "orig" /\ req'[j] = "redirected" /\ pc'[j] = "start"
          /\ Started(j) => pc'[j] # "idle"
          /\ Finished(j) => pc'[j] = pc[j] /\ gens'[j] = gens[j] /\ images'[j] = images[j]
          /\ (Started(j) /\ (gens'[j] # gens[j] \/ images'[j] # images[j]))
              => /\ pc'[j] # pc[j]
                 /\ req' = req
                 /\ \A k \in JobIds \ {j} :
                        pc'[k] = pc[k] /\ gens'[k] = gens[k] /\ images'[k] = images[k]]_vars

C15_Witness ==
    \E j, k \in JobIds :
        /\ j # k
        /\ pc[j] = "persist" /\ Len(calls[j]) = 4
        /\ Started(k) /\ ~Finished(k) /\ gens[k].breed # NULL

\* ---------------------------------------------------------------- C16
\* C16: with no API credential, no worker issues a detect, edit or generate
\* request, and a worker that has finished has left its job in status error
\* with the missing-credential message.
C16_NoCredentialNoCallEndsInError ==
    ~apiKeySet
    => \A j \in JobIds :
           /\ calls[j] = <<>>
           /\ pc[j] \in {"idle", "start", "detect", "handler", "finished"}
           /\ Finished(j) => gens[j].status = "error" /\ gens[j].error_message = NoKeyMsg

C16_Witness ==
    ~apiKeySet /\ \E j \in JobIds : Finished(j) /\ gens[j].status = "error"

\* ---------------------------------------------------------------- C17
\* C17: a job's stored breed is non-null only after its worker's detection call
\* returned, and is then the breed the worker derived from it; it is stored by
\* the worker's breed commit alone; when an edit call has been issued the breed
\* is already stored and is the one named in the prompt; once stored it never
\* changes.
C17_BreedWrittenOnceAfterDetection ==
    /\ [](\A j \in JobIds :
            /\ gens[j].breed # NULL
                => Started(j) /\ Returned(j, "vision") /\ gens[j].breed = breed[j]
            /\ Len(calls[j]) >= 2
                => gens[j].breed # NULL /\ calls[j][2].prompt[2] = gens[j].breed)
    /\ [][\A j \in JobIds :
            /\ gens'[j].breed # gens[j].breed
                => pc[j] = "commit_breed" /\ pc'[j] = "preprocess" /\ gens[j].breed = NULL
            /\ gens[j].breed # NULL => gens'[j].breed = gens[j].breed]_vars

C17_Witness ==
    \E j \in JobIds :
        Finished(j) /\ Len(calls[j]) >= 2 /\ gens[j].breed \notin {NULL, DefaultBreed}

\* ---------------------------------------------------------------- C18
EditIssued(j, n) == Len(calls[j]) >= n + 1 /\ calls[j][n + 1].api = "edit"

C19_BoxRoundedToNearest ==
    \A j \in JobIds :
        files[j].mask_side = 1024
        => files[j].mask_box = [left |-> 164, right |-> 861, top |-> 41, bottom |-> 840]

\* C19 (amended): the fractions are truncated toward zero, which on the
\* 1024 x 1024 canvas gives x in [163, 860] and y in [40, 839].
C19_BoxTruncated ==
    \A j \in JobIds :
        files[j].mask # NoFile
        => /\ files[j].mask_side = 1024
           /\ files[j].mask_box = [left |-> 163, right |-> 860, top |-> 40, bottom |-> 839]
           /\ \A pct \in {LeftPct, RightPct, TopPct, BottomPct} :
                  /\ 100 * Trunc(files[j].mask_side, pct) <= pct * files[j].mask_side
                  /\ 100 * (Trunc(files[j].mask_side, pct) + 1) > pct * files[j].mask_side
           /\ files[j].mask_box = MaskBox(files[j].mask_side, files[j].mask_side)

C19_Witness ==
    \E j \in JobIds : EditIssued(j, 1) /\ calls[j][2].mask = files[j].mask /\ files[j].mask_box.left = 163

\* ---------------------------------------------------------------- C20
\* C20: in every state a job has no derived asset or all three, and has derived
\* assets only when its status is done: a job in processing or error has none,
\* also when its worker failed while persisting the results.
C20_DerivedAssetsAllOrNothingWithDone ==
    \A j \in JobIds :
        /\ Len(Derived(j)) \in {0, Cardinality(DerivedKinds)}
        /\ Len(Derived(j)) > 0
            => /\ gens[j].status = "done"
               /\ \A k \in DerivedKinds : Len(RowsOfKind(j, k)) = 1
        /\ gens[j].status \in {"processing", "error"} => Len(Derived(j)) = 0

C20_Witness ==
    \E j \in JobIds :
        /\ Finished(j) /\ Len(calls[j]) = 4 /\ Returned(j, "dog")
        /\ exc[j] \in {EncodeMsg, CommitMsg}
        /\ gens[j].status = "error" /\ Len(Derived(j)) = 0

\* ---------------------------------------------------------------- C21
\* C21: an empty upload is refused before anything is created: the step that
\* answers it leaves the rows, the assets, the requests and the workers as they
\* were, and no row, original asset or worker ever belongs to an empty upload.
C21_EmptyUploadCreatesNothing ==
    /\ [](\A j \in JobIds :
            (gens[j].exists \/ images[j] # <<>> \/ Started(j)) => reqUpload[j] # Empty)
    /\ [][refused' # refused
            => /\ refused' = refused + 1
               /\ UNCHANGED <<gens, images, req, reqUpload, workerVars>>]_vars

C21_Witness ==
    /\ refused > 0
    /\ \E j \in JobIds : Finished(j) /\ Len(OriginalRows(j)) = 1
    /\ \E j \in JobIds : ~gens[j].exists

====
